---- MODULE Spec2Model ----
(***************************************************************************)
(* httpChirpy: the refresh-token queries (sql/queries/refresh_tokens.sql), *)
(* the auth package (internal/auth/auth.go) and the login / register /     *)
(* reset / create-chirp handlers (main.go) as state machines.              *)
(*                                                                         *)
(* Time is counted in ticks; TicksPerSecond ticks make one second, so that *)
(* sub-second instants exist (time.Now() and NOW() are finer than the      *)
(* whole seconds a JWT NumericDate keeps).                                 *)
(***************************************************************************)
EXTENDS Integers, FiniteSets, Sequences, TLC

\* ----------------------------------------------------------------- bounds
MaxTime == 3            \* the clock runs from tick 0 to tick MaxTime
TicksPerSecond == 2     \* clock resolution: ticks in one second
MaxUsers == 3           \* user ids gen_random_uuid() hands out in one run
MaxLen == 3             \* characters of a header value after its scheme prefix
MaxChirps == 2          \* chirps created in one run

\* ------------------------------------------------------------ value sets
NULL == -1              \* SQL NULL of a timestamp column (all instants are >= 0)
NilUUID == 0            \* uuid.Nil, the zero value of apiConfig.userId
HourSeconds == 3600     \* the TTL cap of handlerLogin
MaxChirpLength == 140   \* validate: the longest chirp body, in bytes

Tokens == {"t1", "t2"}                    \* refresh-token strings
EmailSeq == <<"a@b.com", "c@d.com">>
Emails == {EmailSeq[i] : i \in 1..Len(EmailSeq)}
Passwords == {"secret123", "hunter2"}
Secrets == {"k1", "k2"}                   \* JWT_SECRET_KEY values
Platforms == {"dev", "prod"}              \* PLATFORM values
Salts == {1}                              \* bcrypt salts
UserIds == 1..MaxUsers
Times == 0..MaxTime
ExpiresAtValues == {2, MaxTime + 1}       \* expires_at of a CreateRefreshToken call
ExpiresInValues == {-1, 0, 1, HourSeconds, HourSeconds + 1}  \* expires_in_seconds of a login request

VARIABLES
    now,             \* the clock (time.Now(), NOW()), in ticks
    users,           \* table users: rows [id, email, hashed_password]
    nextId,          \* the next id gen_random_uuid() hands out
    refresh_tokens,  \* table refresh_tokens: rows [token, user_id, expires_at, revoked_at, updated_at]
    cfg,             \* apiConfig: [platform, secretKey, userId, fileserverHits]
    jwt,             \* SpecJWT: the last MakeJWT call, [userID, secret, expiresIn, at, token], or <<>>
    res,             \* the last operation and what it returned
    hist,            \* history: what earlier operations returned (read by the properties only)
    chirps,          \* table chirps: rows [id, body, user_id]
    nextChirpId      \* the next id gen_random_uuid() hands out to a chirp

vars == <<now, users, nextId, refresh_tokens, cfg, jwt, res, hist, chirps, nextChirpId>>

\* --------------------------------------------------- refresh_tokens.sql
\* CreateRefreshToken: INSERT INTO refresh_tokens (token, user_id, expires_at);
\* revoked_at is left NULL and updated_at takes the column default.
CreateRefreshTokenRow(token, user_id, expires_at, t) ==
    [token |-> token, user_id |-> user_id, expires_at |-> expires_at,
     revoked_at |-> NULL, updated_at |-> t]

\* The schema's constraints on an insert: token is the primary key and
\* user_id references users(id).
InsertAllowed(rt, us, token, user_id) ==
    /\ \A r \in rt : r.token # token
    /\ \E u \in us : u.id = user_id

\* GetRefreshToken: WHERE token = $1 AND expires_at > NOW() AND revoked_at IS NULL
\* (mutants: the revoked_at test left out; the expiry comparison turned round)
GetRefreshTokenWhereNoRevoked(r, token, t) ==
    r.token = token /\ r.expires_at > t

GetRefreshTokenWhereFlipped(r, token, t) ==
    r.token = token /\ r.expires_at < t /\ r.revoked_at = NULL

GetRefreshTokenWhere(r, token, t) ==
    r.token = token /\ r.expires_at > t /\ r.revoked_at = NULL

\* ORDER BY expires_at DESC LIMIT 1 over the rows m: the set holding the first
\* row, or the empty set (sql.ErrNoRows)
OrderByExpiresDescLimit1(m) ==
    IF m = {} THEN {}
    ELSE {CHOOSE r \in m : \A q \in m : r.expires_at >= q.expires_at}

GetRefreshTokenRows(rt, token, t) ==
    OrderByExpiresDescLimit1({r \in rt : GetRefreshTokenWhere(r, token, t)})

\* GetUserFromRefreshToken: users JOIN refresh_tokens ON users.id = user_id
\* WHERE token = $1 AND expires_at > NOW()  ORDER BY expires_at DESC LIMIT 1
GetUserFromRefreshTokenWhere(r, token, t) ==
    r.token = token /\ r.expires_at > t

GetUserFromRefreshTokenRows(us, rt, token, t) ==
    LET joined == {jr \in us \X rt : jr[1].id = jr[2].user_id
                                     /\ GetUserFromRefreshTokenWhere(jr[2], token, t)}
        first == OrderByExpiresDescLimit1({jr[2] : jr \in joined})
    IN  IF first = {} THEN {}
        ELSE {CHOOSE u \in us : \E r \in first : <<u, r>> \in joined}

\* RevokeRefreshToken: UPDATE SET revoked_at = NOW() WHERE token = $1;
\*                     UPDATE SET updated_at = NOW() WHERE token = $1;
RevokeRefreshTokenRow(r, token, t) ==
    IF r.token = token
    THEN [r EXCEPT !.revoked_at = t, !.updated_at = t]
    ELSE r

RevokeRefreshTokenTable(rt, token, t) ==
    {RevokeRefreshTokenRow(r, token, t) : r \in rt}

\* RevokeRefreshTokensForUser: UPDATE SET revoked_at = NOW() WHERE user_id = $1
\* (mutant: the wrong column is set)
RevokeRefreshTokensForUserRowWrongColumn(r, user_id, t) ==
    IF r.user_id = user_id
    THEN [r EXCEPT !.updated_at = t]
    ELSE r

RevokeRefreshTokensForUserRow(r, user_id, t) ==
    IF r.user_id = user_id
    THEN [r EXCEPT !.revoked_at = t]
    ELSE r

RevokeRefreshTokensForUserTable(rt, user_id, t) ==
    {RevokeRefreshTokensForUserRow(r, user_id, t) : r \in rt}

\* --------------------------------------------------------- auth.go: bcrypt
\* HashPassword: bcrypt.GenerateFromPassword: a salted one-way digest
HashPassword(password, salt) ==
    [alg |-> "bcrypt", salt |-> salt, digest |-> <<"H", salt, password>>]

\* CheckHashPassword: TRUE when bcrypt.CompareHashAndPassword returns nil
\* (mutant: every password passes)
CheckHashPasswordAnyPassword(password, hash) ==
    hash.alg = "bcrypt"

CheckHashPassword(password, hash) ==
    hash.digest = <<"H", hash.salt, password>>

\* ------------------------------------------------------------ auth.go: JWT
\* jwt.NewNumericDate: the instant cut down to jwt.TimePrecision, one second
NumericDate(t) == t - (t % TicksPerSecond)

\* uuid.UUID.String() and uuid.Parse
UUIDString(id) == <<"uuid", id>>

UUIDParseOk(s) == Len(s) = 2 /\ s[1] = "uuid"

UUIDParse(s) == s[2]

\* the RegisteredClaims of a token, as the signature covers them
ClaimsOf(tok) == <<tok.iss, tok.sub, tok.iat, tok.exp>>

\* HS256 over the claims under the key
SignHS256(claims, key) == [alg |-> "HS256", key |-> key, over |-> claims]

\* MakeJWT at instant t: Issuer "chirpy", IssuedAt now, ExpiresAt now + expiresIn,
\* Subject userID.String(), signed with tokenSecret
\* (the two time.Now() reads of the call are taken at the one instant t)
MakeJWT(userID, tokenSecret, expiresIn, t) ==
    LET c == [iss |-> "chirpy", sub |-> UUIDString(userID),
              iat |-> NumericDate(t), exp |-> NumericDate(t + expiresIn)]
    IN  [wellformed |-> TRUE, iss |-> c.iss, sub |-> c.sub, iat |-> c.iat, exp |-> c.exp,
         sig |-> SignHS256(ClaimsOf(c), tokenSecret)]

\* ValidateJWT at instant t: [userId, err], err = "" for nil.
\* jwt.ParseWithClaims parses the token, verifies the signature under
\* tokenSecret and validates the claims (exp: t must be before it); then the
\* subject is parsed as a UUID.
\* (mutant: the signature is not verified)
ValidateJWTNoSignature(tokenString, tokenSecret, t) ==
    IF ~tokenString.wellformed
    THEN [userId |-> NilUUID, err |-> "token is malformed"]
    ELSE IF ~(t < tokenString.exp)
    THEN [userId |-> NilUUID, err |-> "token is expired"]
    ELSE IF ~UUIDParseOk(tokenString.sub)
    THEN [userId |-> NilUUID, err |-> "invalid UUID"]
    ELSE [userId |-> UUIDParse(tokenString.sub), err |-> ""]

\* (mutant: a token whose subject has a revoked refresh token is refused)
ValidateJWTChecksRevocation(tokenString, tokenSecret, t) ==
    IF ~tokenString.wellformed
    THEN [userId |-> NilUUID, err |-> "token is malformed"]
    ELSE IF tokenString.sig # SignHS256(ClaimsOf(tokenString), tokenSecret)
    THEN [userId |-> NilUUID, err |-> "signature is invalid"]
    ELSE IF ~(t < tokenString.exp)
    THEN [userId |-> NilUUID, err |-> "token is expired"]
    ELSE IF ~UUIDParseOk(tokenString.sub)
    THEN [userId |-> NilUUID, err |-> "invalid UUID"]
    ELSE IF \E r \in refresh_tokens :
                r.user_id = UUIDParse(tokenString.sub) /\ r.revoked_at # NULL
    THEN [userId |-> NilUUID, err |-> "token is revoked"]
    ELSE [userId |-> UUIDParse(tokenString.sub), err |-> ""]

ValidateJWT(tokenString, tokenSecret, t) ==
    IF ~tokenString.wellformed
    THEN [userId |-> NilUUID, err |-> "token is malformed"]
    ELSE IF tokenString.sig # SignHS256(ClaimsOf(tokenString), tokenSecret)
    THEN [userId |-> NilUUID, err |-> "signature is invalid"]
    ELSE IF ~(t < tokenString.exp)
    THEN [userId |-> NilUUID, err |-> "token is expired"]
    ELSE IF ~UUIDParseOk(tokenString.sub)
    THEN [userId |-> NilUUID, err |-> "invalid UUID"]
    ELSE [userId |-> UUIDParse(tokenString.sub), err |-> ""]


\* ------------------------------------------- auth.go: the Authorization header
\* A string is a sequence of one-character strings. http.Header is a map: a
\* request without the header has no "Authorization" key, and Get returns "".
BearerPrefix == <<"B", "e", "a", "r", "e", "r", " ">>
ApiKeyPrefix == <<"A", "p", "i", "K", "e", "y", " ">>
SpaceCutset == {" "}                      \* the cutset " " of TrimLeft and TrimRight

HeaderGet(headers, key) ==
    IF key \in DOMAIN headers THEN headers[key] ELSE <<>>

\* strings.HasPrefix, strings.TrimPrefix
HasPrefix(s, prefix) ==
    Len(s) >= Len(prefix) /\ SubSeq(s, 1, Len(prefix)) = prefix

TrimPrefix(s, prefix) ==
    IF HasPrefix(s, prefix) THEN SubSeq(s, Len(prefix) + 1, Len(s)) ELSE s

\* strings.TrimLeft, strings.TrimRight: the leading (trailing) characters that
\* are in the cutset are dropped
RECURSIVE TrimLeft(_, _)
TrimLeft(s, cutset) ==
    IF s # <<>> /\ Head(s) \in cutset THEN TrimLeft(Tail(s), cutset) ELSE s

RECURSIVE TrimRight(_, _)
TrimRight(s, cutset) ==
    IF s # <<>> /\ s[Len(s)] \in cutset
    THEN TrimRight(SubSeq(s, 1, Len(s) - 1), cutset)
    ELSE s

\* GetBearerToken: [token, err], err = "" for nil
\* (mutant: the trailing spaces are kept)
GetBearerTokenNoTrimRight(headers) ==
    LET header == HeaderGet(headers, "Authorization")
    IN  IF header = <<>> \/ ~HasPrefix(header, BearerPrefix)
        THEN [token |-> <<>>, err |-> "invalid authorization header"]
        ELSE [token |-> TrimLeft(TrimPrefix(header, BearerPrefix), SpaceCutset),
              err |-> ""]

GetBearerToken(headers) ==
    LET header == HeaderGet(headers, "Authorization")
    IN  IF header = <<>> \/ ~HasPrefix(header, BearerPrefix)
        THEN [token |-> <<>>, err |-> "invalid authorization header"]
        ELSE [token |-> TrimRight(TrimLeft(TrimPrefix(header, BearerPrefix),
                                           SpaceCutset), SpaceCutset),
              err |-> ""]

\* GetAPIKey: [token, err]
\* (mutant: the prefix test was left as GetBearerToken has it)
GetAPIKeyBearerPrefix(headers) ==
    LET header == HeaderGet(headers, "Authorization")
    IN  IF header = <<>> \/ ~HasPrefix(header, BearerPrefix)
        THEN [token |-> <<>>, err |-> "invalid authorization header"]
        ELSE [token |-> TrimRight(TrimLeft(TrimPrefix(header, BearerPrefix),
                                           SpaceCutset), SpaceCutset),
              err |-> ""]

GetAPIKey(headers) ==
    LET header == HeaderGet(headers, "Authorization")
    IN  IF header = <<>> \/ ~HasPrefix(header, ApiKeyPrefix)
        THEN [token |-> <<>>, err |-> "invalid authorization header"]
        ELSE [token |-> TrimRight(TrimLeft(TrimPrefix(header, ApiKeyPrefix),
                                           SpaceCutset), SpaceCutset),
              err |-> ""]

\* the headers of a request: without an Authorization header, or with one
NoHeaders == [k \in {} |-> <<>>]
WithAuthorization(v) == [k \in {"Authorization"} |-> v]

\* header values of the three schemes
BasicPrefix == <<"B", "a", "s", "i", "c", " ">>
BearerAbc == BearerPrefix \o <<"a", "b", "c">>        \* "Bearer abc"
ApiKeyK1 == ApiKeyPrefix \o <<"k", "1">>              \* "ApiKey k1"
BasicXyz == BasicPrefix \o <<"x", "y", "z">>          \* "Basic xyz"

\* ------------------------------------------------------------- the state
NoHist == [revokedAllTokens |-> {}, registered |-> {}]

\* main: an empty database, apiConfig{platform, secretKey} from the environment
InitWith(platforms, secrets) ==
    /\ now = 0
    /\ users = {}
    /\ nextId = 1
    /\ refresh_tokens = {}
    /\ cfg \in [platform : platforms, secretKey : secrets, userId : {NilUUID}, fileserverHits : {0}]
    /\ jwt = <<>>
    /\ res = [op |-> "start"]
    /\ hist = NoHist
    /\ chirps = {}
    /\ nextChirpId = 1

Init == InitWith(Platforms, Secrets)

\* time passes
Tick ==
    /\ now < MaxTime
    /\ now' = now + 1
    /\ res' = [op |-> "Tick"]
    /\ UNCHANGED <<users, nextId, refresh_tokens, cfg, jwt, hist, chirps, nextChirpId>>

\* ------------------------------------------- SpecStore: the queries alone
\* CreateUser (users.sql): INSERT INTO users (email, hashed_password), id by
\* gen_random_uuid(), email unique
CreateUserRow(id, email, hashed_password) ==
    [id |-> id, email |-> email, hashed_password |-> hashed_password]

CreateUser(email, hashed_password) ==
    /\ nextId <= MaxUsers
    /\ \A u \in users : u.email # email
    /\ users' = users \cup {CreateUserRow(nextId, email, hashed_password)}
    /\ nextId' = nextId + 1
    /\ res' = [op |-> "CreateUser", id |-> nextId]
    /\ UNCHANGED <<now, refresh_tokens, cfg, jwt, hist, chirps, nextChirpId>>

\* (an insert the constraints refuse is an error that changes nothing)
CreateRefreshToken(token, user_id, expires_at) ==
    LET row == CreateRefreshTokenRow(token, user_id, expires_at, now)
    IN  /\ InsertAllowed(refresh_tokens, users, token, user_id)
        /\ refresh_tokens' = refresh_tokens \cup {row}
        /\ res' = [op |-> "CreateRefreshToken", token |-> token, user_id |-> user_id,
                   rows |-> {row}]
        /\ UNCHANGED <<now, users, nextId, cfg, jwt, hist, chirps, nextChirpId>>

\* (mutant: the lookup marks the expired rows of the token as revoked)
GetRefreshTokenWritesExpiry(token) ==
    /\ refresh_tokens' =
          {IF r.token = token /\ r.expires_at <= now /\ r.revoked_at = NULL
           THEN [r EXCEPT !.revoked_at = now] ELSE r : r \in refresh_tokens}
    /\ res' = [op |-> "GetRefreshToken", token |-> token,
               rows |-> GetRefreshTokenRows(refresh_tokens, token, now)]
    /\ UNCHANGED <<now, users, nextId, cfg, jwt, hist, chirps, nextChirpId>>

GetRefreshToken(token) ==
    /\ res' = [op |-> "GetRefreshToken", token |-> token,
               rows |-> GetRefreshTokenRows(refresh_tokens, token, now)]
    /\ UNCHANGED <<now, users, nextId, refresh_tokens, cfg, jwt, hist, chirps, nextChirpId>>

GetUserFromRefreshToken(token) ==
    /\ res' = [op |-> "GetUserFromRefreshToken", token |-> token,
               rows |-> GetUserFromRefreshTokenRows(users, refresh_tokens, token, now)]
    /\ UNCHANGED <<now, users, nextId, refresh_tokens, cfg, jwt, hist, chirps, nextChirpId>>

RevokeRefreshToken(token) ==
    /\ refresh_tokens' = RevokeRefreshTokenTable(refresh_tokens, token, now)
    /\ res' = [op |-> "RevokeRefreshToken", token |-> token, err |-> FALSE]
    /\ UNCHANGED <<now, users, nextId, cfg, jwt, hist, chirps, nextChirpId>>

RevokeRefreshTokensForUser(user_id) ==
    /\ refresh_tokens' = RevokeRefreshTokensForUserTable(refresh_tokens, user_id, now)
    /\ res' = [op |-> "RevokeRefreshTokensForUser", user_id |-> user_id, err |-> FALSE]
    /\ hist' = [hist EXCEPT !.revokedAllTokens =
                    @ \cup {r.token : r \in {q \in refresh_tokens : q.user_id = user_id}}]
    /\ UNCHANGED <<now, users, nextId, cfg, jwt, chirps, nextChirpId>>

NextStore ==
    \/ Tick
    \/ nextId <= Len(EmailSeq) /\ CreateUser(EmailSeq[nextId], HashPassword("secret123", 1))
    \/ \E t \in Tokens, u \in UserIds, x \in ExpiresAtValues : CreateRefreshToken(t, u, x)
    \/ \E t \in Tokens : GetRefreshToken(t)
    \/ \E t \in Tokens : GetUserFromRefreshToken(t)
    \/ \E t \in Tokens : RevokeRefreshToken(t)
    \/ \E u \in UserIds : RevokeRefreshTokensForUser(u)

InitStore == InitWith({"dev"}, {"k1"})

SpecStore == InitStore /\ [][NextStore]_vars

\* ------------------------------------------------- Spec: main.go handlers
\* users.sql: GetUserByEmail, the rows with that email (email is unique)
GetUserByEmail(us, email) == {u \in us : u.email = email}

\* marshallError(w, err, code): WriteHeader(code), then the body
\* {"error": err.Error()}. With a nil err, err.Error() panics after the status
\* was set, and net/http ends the request there.
marshallError(err, code) ==
    IF err = ""
    THEN [code |-> code, body |-> <<>>, panicked |-> TRUE]
    ELSE [code |-> code, body |-> <<"error", err>>, panicked |-> FALSE]

\* the 2xx answer with its JSON body
WriteJSON(code, body) == [code |-> code, body |-> body, panicked |-> FALSE]

\* cfg.userId = user.ID, the one write to the configuration after startup
\* besides the hit counter
\* (mutant: the write lands on secretKey as well)
StoreUserIdAndSecret(c, id) == [c EXCEPT !.userId = id, !.secretKey = "k2"]

StoreUserId(c, id) == [c EXCEPT !.userId = id]

\* handlerLogin: expires_in_seconds as MakeJWT gets it
LoginExpiresInSeconds(expiresInSeconds) ==
    IF expiresInSeconds = 0 \/ expiresInSeconds > HourSeconds
    THEN HourSeconds
    ELSE expiresInSeconds

\* handlerLogin: the subject of the token is user.ID
LoginSubject(user, c) == user.id

\* the request as the handler decoded it, kept with the response
LoginRequest(bodyOk, email, password, expiresInSeconds) ==
    [bodyOk |-> bodyOk, email |-> email, password |-> password,
     expires_in_seconds |-> expiresInSeconds]

handlerLogin(bodyOk, email, password, expiresInSeconds) ==
    LET req == LoginRequest(bodyOk, email, password, expiresInSeconds)
        found == GetUserByEmail(users, email)
    IN  IF ~bodyOk
        THEN /\ res' = [op |-> "handlerLogin", req |-> req,
                        resp |-> marshallError("json: cannot decode", 500)]
             /\ UNCHANGED <<now, users, nextId, refresh_tokens, cfg, jwt, hist, chirps, nextChirpId>>
        ELSE IF found = {}
        THEN /\ res' = [op |-> "handlerLogin", req |-> req,
                        resp |-> marshallError("sql: no rows in result set", 404)]
             /\ UNCHANGED <<now, users, nextId, refresh_tokens, cfg, jwt, hist, chirps, nextChirpId>>
        ELSE \E user \in found :
             IF ~CheckHashPassword(password, user.hashed_password)
             THEN /\ res' = [op |-> "handlerLogin", req |-> req,
                             resp |-> marshallError("bcrypt: hashedPassword is not the hash of the given password", 401)]
                  /\ UNCHANGED <<now, users, nextId, refresh_tokens, cfg, jwt, hist, chirps, nextChirpId>>
             ELSE LET token == MakeJWT(LoginSubject(user, cfg), cfg.secretKey,
                                       LoginExpiresInSeconds(expiresInSeconds) * TicksPerSecond, now)
                  IN  /\ cfg' = StoreUserId(cfg, user.id)
                      /\ res' = [op |-> "handlerLogin", req |-> req,
                                 resp |-> WriteJSON(200, [id |-> user.id, email |-> user.email,
                                                          token |-> token])]
                      /\ UNCHANGED <<now, users, nextId, refresh_tokens, jwt, hist, chirps, nextChirpId>>

RegisterRequest(bodyOk, email, password) ==
    [bodyOk |-> bodyOk, email |-> email, password |-> password]

handlerRegister(bodyOk, email, password, salt) ==
    LET req == RegisterRequest(bodyOk, email, password) IN
    IF ~bodyOk
    THEN /\ res' = [op |-> "handlerRegister", req |-> req,
                    resp |-> marshallError("json: cannot decode", 500)]
         /\ UNCHANGED <<now, users, nextId, refresh_tokens, cfg, jwt, hist, chirps, nextChirpId>>
    ELSE IF cfg.platform # "dev"
    THEN \* marshallError(w, err, 403) with err == nil: the panic ends the handler
         /\ res' = [op |-> "handlerRegister", req |-> req,
                    resp |-> marshallError("", 403)]
         /\ UNCHANGED <<now, users, nextId, refresh_tokens, cfg, jwt, hist, chirps, nextChirpId>>
    ELSE IF GetUserByEmail(users, email) # {}
    THEN \* CreateUser fails on the unique email
         /\ res' = [op |-> "handlerRegister", req |-> req,
                    resp |-> marshallError("pq: duplicate key value violates unique constraint", 500)]
         /\ UNCHANGED <<now, users, nextId, refresh_tokens, cfg, jwt, hist, chirps, nextChirpId>>
    ELSE /\ nextId <= MaxUsers
         /\ users' = users \cup {CreateUserRow(nextId, email, HashPassword(password, salt))}
         /\ nextId' = nextId + 1
         /\ cfg' = StoreUserId(cfg, nextId)
         /\ res' = [op |-> "handlerRegister", req |-> req,
                    resp |-> WriteJSON(201, [id |-> nextId, email |-> email])]
         /\ hist' = [hist EXCEPT !.registered =
                        @ \cup {[email |-> email, password |-> password, id |-> nextId]}]
         /\ UNCHANGED <<now, refresh_tokens, jwt, chirps, nextChirpId>>

\* handlerReset: DeleteUsers (DELETE FROM users; the rows that reference a
\* user go with it), then the hit counter is set to 0
handlerReset ==
    /\ users' = {}
    /\ refresh_tokens' = {}
    /\ chirps' = {}
    /\ cfg' = [cfg EXCEPT !.fileserverHits = 0]
    /\ res' = [op |-> "handlerReset", resp |-> WriteJSON(200, "Hits reset to 0")]
    /\ UNCHANGED <<now, nextId, jwt, hist, nextChirpId>>

\* ------------------------------------------ main.go: handlerCreateChirp
\* the body of a chirp: its words (the text split at spaces) and its length in
\* bytes; one body within the limit that holds a word of the filter, one body
\* a byte too long
ChirpBodies ==
    {[len |-> 12, words |-> <<"hello", "Fornax">>],
     [len |-> MaxChirpLength + 1, words |-> <<"aaa">>]}

\* strings.ToLower, on the words of ChirpBodies
ToLower(word) == IF word = "Fornax" THEN "fornax" ELSE word

\* cleanString: each word that is, in lower case, one of the three filtered
\* words becomes "****"; the words are joined with single spaces again
cleanString(words) ==
    [i \in DOMAIN words |->
        IF ToLower(words[i]) \in {"kerfuffle", "sharbert", "fornax"}
        THEN "****" ELSE words[i]]

\* validate: [body, err]
validate(params) ==
    IF params.len > MaxChirpLength
    THEN [body |-> <<>>, err |-> "chirp is too long"]
    ELSE [body |-> cleanString(params.words), err |-> ""]

\* CreateChirp (chirps.sql): INSERT INTO chirps (id, body, user_id), id by
\* gen_random_uuid()
CreateChirpRow(id, body, user_id) == [id |-> id, body |-> body, user_id |-> user_id]

\* the schema's constraint on the insert: user_id references users(id)
ChirpInsertAllowed(us, user_id) == \E u \in us : u.id = user_id

\* The access tokens a client can put in a request: those the process issues
\* for one second (for any user, at any instant) and the same tokens signed
\* under another key. In a header an access token is one symbol, its compact
\* serialisation; ParseJWT reads it back, and any other text is a malformed
\* token.
RequestTokens ==
    {MakeJWT(u, k, TicksPerSecond, t) : u \in UserIds, k \in Secrets, t \in Times}

JWTString(tok) == ToString(tok)

JWTStrings == {JWTString(tok) : tok \in RequestTokens}

JWTOfString == [str \in JWTStrings |-> CHOOSE tok \in RequestTokens : JWTString(tok) = str]

MalformedJWT == [wellformed |-> FALSE]

ParseJWT(s) ==
    IF Len(s) = 1 /\ s[1] \in JWTStrings THEN JWTOfString[s[1]] ELSE MalformedJWT

\* the Authorization headers of the create-chirp requests
ChirpHeaders ==
    {NoHeaders, WithAuthorization(BearerAbc), WithAuthorization(ApiKeyK1)}
        \cup {WithAuthorization(BearerPrefix \o <<JWTString(tok)>>) : tok \in RequestTokens}

ChirpRequest(bodyOk, headers, params) ==
    [bodyOk |-> bodyOk, headers |-> headers, body |-> params]

\* handlerCreateChirp. The err of ValidateJWT is overwritten by validate's
\* before anything reads it; the row takes cfg.userId and the response the
\* userId ValidateJWT returned.
handlerCreateChirp(bodyOk, headers, params) ==
    LET req == ChirpRequest(bodyOk, headers, params)
        bearer == GetBearerToken(headers)
        userId == ValidateJWT(ParseJWT(bearer.token), cfg.secretKey, now).userId
        checked == validate(params)
        reply(resp) ==
            /\ res' = [op |-> "handlerCreateChirp", req |-> req, resp |-> resp]
            /\ UNCHANGED <<now, users, nextId, refresh_tokens, cfg, jwt, hist, chirps, nextChirpId>>
    IN  IF ~bodyOk
        THEN reply(marshallError("json: cannot decode", 500))
        ELSE IF bearer.err # ""
        THEN reply(marshallError(bearer.err, 401))
        ELSE IF checked.err # ""
        THEN reply(marshallError(checked.err, 400))
        ELSE IF ~ChirpInsertAllowed(users, cfg.userId)
        THEN reply(marshallError("pq: insert violates foreign key constraint", 500))
        ELSE /\ nextChirpId <= MaxChirps
             /\ chirps' = chirps \cup {CreateChirpRow(nextChirpId, checked.body, cfg.userId)}
             /\ nextChirpId' = nextChirpId + 1
             /\ res' = [op |-> "handlerCreateChirp", req |-> req,
                        resp |-> WriteJSON(201, [id |-> nextChirpId, body |-> checked.body,
                                                 user_id |-> userId])]
             /\ UNCHANGED <<now, users, nextId, refresh_tokens, cfg, jwt, hist>>

Next ==
    \/ Tick
    \/ \E b \in BOOLEAN, e \in Emails, p \in Passwords, s \in Salts : handlerRegister(b, e, p, s)
    \/ \E b \in BOOLEAN, e \in Emails, p \in Passwords, x \in ExpiresInValues : handlerLogin(b, e, p, x)
    \/ handlerReset

Spec == Init /\ [][Next]_vars

\* ------------- SpecChirp: the handlers with handlerCreateChirp among them
\* The headers a client can send: any text it makes up, tokens signed under a
\* key of its own, and, of the tokens signed under the process secret, those a
\* login can have returned: for a user that registered, issued by now.
ClientHolds(headers) ==
    LET tok == ParseJWT(GetBearerToken(headers).token)
    IN  IF ~tok.wellformed THEN TRUE
        ELSE IF tok.sig.key # cfg.secretKey THEN TRUE
        ELSE /\ tok.iat <= now
             /\ \E g \in hist.registered : UUIDString(g.id) = tok.sub

\* (the requests decode, and the passwords are right)
NextChirp ==
    \/ Tick
    \/ \E e \in Emails : handlerRegister(TRUE, e, "secret123", 1)
    \/ \E e \in Emails : handlerLogin(TRUE, e, "secret123", 1)
    \/ handlerReset
    \/ \E h \in {g \in ChirpHeaders : ClientHolds(g)}, p \in ChirpBodies :
          handlerCreateChirp(TRUE, h, p)
    \/ \E p \in ChirpBodies : handlerCreateChirp(FALSE, NoHeaders, p)

InitChirp == InitWith({"dev"}, Secrets)

SpecChirp == InitChirp /\ [][NextChirp]_vars

\* ------------------------------------- SpecJWT: MakeJWT and ValidateJWT alone
Durations == (0 - 1)..(TicksPerSecond + 1)    \* expiresIn of a MakeJWT call, in ticks

MakeJWTCall(userID, tokenSecret, expiresIn) ==
    /\ jwt' = [userID |-> userID, secret |-> tokenSecret, expiresIn |-> expiresIn,
               at |-> now, token |-> MakeJWT(userID, tokenSecret, expiresIn, now)]
    /\ res' = [op |-> "MakeJWT"]
    /\ UNCHANGED <<now, users, nextId, refresh_tokens, cfg, hist, chirps, nextChirpId>>

ValidateJWTCall(tokenSecret) ==
    /\ jwt # <<>>
    /\ res' = [op |-> "ValidateJWT", secret |-> tokenSecret,
               out |-> ValidateJWT(jwt.token, tokenSecret, now)]
    /\ UNCHANGED <<now, users, nextId, refresh_tokens, cfg, jwt, hist, chirps, nextChirpId>>

NextJWT ==
    \/ Tick
    \/ \E u \in {NilUUID} \cup UserIds, k \in Secrets, d \in Durations : MakeJWTCall(u, k, d)
    \/ \E k \in Secrets : ValidateJWTCall(k)

\* (the configuration plays no part here)
SpecJWT == InitStore /\ [][NextJWT]_vars

\* ------------- SpecSession: access tokens beside the refresh-token store
\* the process issues access tokens under its secret while refresh tokens
\* are created and revoked
SessionDurations == {1, TicksPerSecond + 1}   \* expiresIn of an issued token, in ticks

NextSession ==
    \/ Tick
    \/ nextId <= Len(EmailSeq) /\ CreateUser(EmailSeq[nextId], HashPassword("secret123", 1))
    \/ \E t \in Tokens, u \in UserIds, x \in ExpiresAtValues : CreateRefreshToken(t, u, x)
    \/ \E t \in Tokens : RevokeRefreshToken(t)
    \/ \E u \in UserIds : RevokeRefreshTokensForUser(u)
    \/ \E u \in users, d \in SessionDurations : MakeJWTCall(u.id, cfg.secretKey, d)
    \/ \E k \in Secrets : ValidateJWTCall(k)

SpecSession == InitStore /\ [][NextSession]_vars

\* ------------------------- SpecHeader: GetBearerToken and GetAPIKey alone
HeaderChars == {" ", "\t", "a"}           \* a space, a tab, a letter

StringsUpTo(n) == UNION {[1..k -> HeaderChars] : k \in 0..n}

SchemePrefixes ==
    {<<>>, BearerPrefix, ApiKeyPrefix, BasicPrefix, <<"B", "e", "a", "r", "e", "r">>}

HeaderValues ==
    {p \o t : p \in SchemePrefixes, t \in StringsUpTo(MaxLen)}
        \cup {BearerAbc, ApiKeyK1, BasicXyz}

Headers == {NoHeaders} \cup {WithAuthorization(v) : v \in HeaderValues}

GetBearerTokenCall(headers) ==
    /\ res' = [op |-> "GetBearerToken", headers |-> headers,
               out |-> GetBearerToken(headers)]
    /\ UNCHANGED <<now, users, nextId, refresh_tokens, cfg, jwt, hist, chirps, nextChirpId>>

GetAPIKeyCall(headers) ==
    /\ res' = [op |-> "GetAPIKey", headers |-> headers,
               out |-> GetAPIKey(headers)]
    /\ UNCHANGED <<now, users, nextId, refresh_tokens, cfg, jwt, hist, chirps, nextChirpId>>

NextHeader ==
    \/ \E h \in Headers : GetBearerTokenCall(h)
    \/ \E h \in Headers : GetAPIKeyCall(h)

SpecHeader == InitStore /\ [][NextHeader]_vars

\* ------------------------------------------------- properties: SpecStore
\* a row is Active at instant t
Active(r, t) == r.revoked_at = NULL /\ r.expires_at > t

\* C1: GetRefreshToken(token) returns a row only if that row has the given
\* token, revoked_at IS NULL and expires_at > now; of several such rows the
\* one with the greatest expires_at is returned; when there is none, no row
\* is returned.
C1_GetRefreshTokenActiveOnly ==
    res.op = "GetRefreshToken" =>
        LET m == {r \in refresh_tokens : r.token = res.token /\ Active(r, now)}
        IN  /\ res.rows \subseteq m
            /\ Cardinality(res.rows) <= 1
            /\ (m = {}) = (res.rows = {})
            /\ \A r \in res.rows, q \in m : r.expires_at >= q.expires_at

\* C1 witness: a lookup returned a row while the other rows of the table are
\* revoked or expired
C1_Witness ==
    /\ res.op = "GetRefreshToken"
    /\ res.rows # {}
    /\ \E q \in refresh_tokens : ~Active(q, now)

\* C2 (the claim, refuted by the code): GetUserFromRefreshToken(token) returns
\* a user only if a row of that token and user has revoked_at IS NULL and
\* expires_at > now; after a revoke it returns no user.
C2_GetUserActiveOnly ==
    res.op = "GetUserFromRefreshToken" =>
        \A u \in res.rows :
            \E r \in refresh_tokens :
                r.token = res.token /\ r.user_id = u.id /\ Active(r, now)

\* C3 (the claim, refuted by the code): RevokeRefreshToken sets revoked_at to
\* now only where it is not set: a row already revoked keeps its first
\* revoked_at, and a token with no row is no error and changes no row.
C3_RevokeKeepsFirstRevokedAt ==
    [][res'.op = "RevokeRefreshToken" =>
        /\ ~res'.err
        /\ \A r \in refresh_tokens :
              r.token = res'.token =>
                 \E q \in refresh_tokens' :
                    /\ q.token = r.token
                    /\ q.revoked_at = (IF r.revoked_at = NULL THEN now ELSE r.revoked_at)
        /\ (\A r \in refresh_tokens : r.token # res'.token) => refresh_tokens' = refresh_tokens
    ]_vars

\* C4: Revoked and Expired are terminal: once GetRefreshToken(t) returns no row
\* for a token t that has a row, it returns no row after any further step; no
\* step sets revoked_at back to NULL or moves expires_at later.
C4_RevokedExpiredTerminal ==
    [][/\ \A t \in Tokens :
             ( /\ \E r \in refresh_tokens : r.token = t
               /\ GetRefreshTokenRows(refresh_tokens, t, now) = {} )
             => GetRefreshTokenRows(refresh_tokens', t, now') = {}
       /\ \A r \in refresh_tokens :
             \E q \in refresh_tokens' :
                /\ q.token = r.token
                /\ q.expires_at <= r.expires_at
                /\ (r.revoked_at # NULL => q.revoked_at # NULL)
    ]_vars

\* C4 witness: a lookup of an expired, never revoked token returned no row,
\* while another token was revoked before
C4_Witness ==
    /\ res.op = "GetRefreshToken"
    /\ res.rows = {}
    /\ \E r \in refresh_tokens :
          r.token = res.token /\ r.revoked_at = NULL /\ r.expires_at <= now
    /\ \E r \in refresh_tokens : r.revoked_at # NULL

\* C5: every token that user U held when RevokeRefreshTokensForUser(U) ran is
\* returned by GetRefreshToken no more; a token created for U after that call
\* is returned by GetRefreshToken as long as it is neither expired nor revoked.
C5_RevokeAllThenCreate ==
    /\ \A t \in hist.revokedAllTokens :
          GetRefreshTokenRows(refresh_tokens, t, now) = {}
    /\ \A r \in refresh_tokens :
          ( /\ \E q \in refresh_tokens :
                  q.user_id = r.user_id /\ q.token \in hist.revokedAllTokens
            /\ r.token \notin hist.revokedAllTokens
            /\ Active(r, now) )
          => GetRefreshTokenRows(refresh_tokens, r.token, now) = {r}

\* C5 witness: T of user U went through RevokeRefreshTokensForUser(U) with its
\* expiry still ahead, and a token created for U afterwards is looked up
C5_Witness ==
    /\ res.op = "GetRefreshToken"
    /\ \E r \in res.rows :
          /\ r.token \notin hist.revokedAllTokens
          /\ \E q \in refresh_tokens :
                /\ q.user_id = r.user_id
                /\ q.token \in hist.revokedAllTokens
                /\ q.expires_at > now

\* C6 (the claim, refuted by the code): RevokeRefreshTokensForUser(U) changes
\* only the Active rows of U: rows of other users, rows of U that are not
\* Active, and every row's token, user_id and expires_at stay as they were; a
\* row of U already revoked keeps its revoked_at.
C6_RevokeAllFrame ==
    [][res'.op = "RevokeRefreshTokensForUser" =>
        /\ Cardinality(refresh_tokens') = Cardinality(refresh_tokens)
        /\ \A r \in refresh_tokens :
              \E q \in refresh_tokens' :
                 /\ q.token = r.token
                 /\ q.user_id = r.user_id
                 /\ q.expires_at = r.expires_at
                 /\ (r.user_id # res'.user_id => q = r)
                 /\ (r.revoked_at # NULL => q.revoked_at = r.revoked_at)
                 /\ (~Active(r, now) => q = r)
    ]_vars

\* C17: expiry is never written back: GetRefreshToken and
\* GetUserFromRefreshToken leave every refresh-token row as it was, and a row
\* whose expires_at has passed keeps its revoked_at and its expires_at through
\* every step that is not a revoke.
C17_ExpiryNeverWrittenBack ==
    [][/\ res'.op \in {"GetRefreshToken", "GetUserFromRefreshToken"} =>
             refresh_tokens' = refresh_tokens
       /\ res'.op \notin {"RevokeRefreshToken", "RevokeRefreshTokensForUser"} =>
             \A r \in refresh_tokens :
                r.expires_at <= now => r \in refresh_tokens'
    ]_vars

\* C17 witness: GetUserFromRefreshToken looked up a token whose expires_at has
\* passed, found no user, and the row is still not revoked
C17_Witness ==
    /\ res.op = "GetUserFromRefreshToken"
    /\ res.rows = {}
    /\ \E r \in refresh_tokens :
          r.token = res.token /\ r.expires_at <= now /\ r.revoked_at = NULL

\* --------------------------------------------------- properties: SpecJWT
\* C9 (the claim as stated, refuted): ValidateJWT(MakeJWT(u, s, ttl), s2) at
\* instant now returns u if and only if s2 = s and now < issue time + ttl, and
\* otherwise an error and the nil user id.
C9_ValidIffBeforeIssuePlusTtl ==
    res.op = "ValidateJWT" =>
        IF res.secret = jwt.secret /\ now < jwt.at + jwt.expiresIn
        THEN res.out = [userId |-> jwt.userID, err |-> ""]
        ELSE res.out.err # "" /\ res.out.userId = NilUUID

\* C9 (amended): ValidateJWT(MakeJWT(u, s, ttl), s2) at instant now returns u
\* if and only if s2 = s and now < expires_at, where expires_at is issue time
\* + ttl cut down to a whole second; otherwise an error and the nil user id.
C9_ValidIffBeforeExpiresAt ==
    res.op = "ValidateJWT" =>
        IF /\ res.secret = jwt.secret
           /\ now < TicksPerSecond * ((jwt.at + jwt.expiresIn) \div TicksPerSecond)
        THEN res.out = [userId |-> jwt.userID, err |-> ""]
        ELSE res.out.err # "" /\ res.out.userId = NilUUID

\* C9 witness: a token whose issue time + ttl is no whole second validates
\* under its own secret some time after it was made
C9_Witness ==
    /\ res.op = "ValidateJWT"
    /\ res.out.err = ""
    /\ res.out.userId = jwt.userID
    /\ jwt.userID # NilUUID
    /\ now > jwt.at
    /\ (jwt.at + jwt.expiresIn) % TicksPerSecond # 0

\* ----------------------------------------------- properties: SpecSession
\* C14: access-token validity does not depend on the refresh-token store: for
\* every issued access token the result of ValidateJWT is settled by the
\* token, the secret and the current time alone, whatever CreateRefreshToken,
\* RevokeRefreshToken and RevokeRefreshTokensForUser calls came before.
C14_ValidityIgnoresRefreshStore ==
    res.op = "ValidateJWT" =>
        IF res.secret = jwt.secret /\ now < jwt.token.exp
        THEN res.out = [userId |-> jwt.userID, err |-> ""]
        ELSE res.out.err # "" /\ res.out.userId = NilUUID

\* C14 witness: an access token validates although every refresh token of its
\* user is revoked, one of them by RevokeRefreshTokensForUser
C14_Witness ==
    /\ res.op = "ValidateJWT"
    /\ res.out.err = ""
    /\ \E r \in refresh_tokens :
          r.user_id = res.out.userId /\ r.token \in hist.revokedAllTokens
    /\ \A r \in refresh_tokens :
          r.user_id = res.out.userId => r.revoked_at # NULL

\* ------------------------------------------------------ properties: Spec
\* C7 (the claim, refuted by the code): for every expires_in_seconds of a
\* successful login, expires_at - issued_at of the access token is in
\* (0, 3600] seconds: the requested value when that is in (0, 3600], and 3600
\* seconds for every other value.
C7_LoginTtlWithinHour ==
    (res.op = "handlerLogin" /\ res.resp.code = 200) =>
        LET d == res.resp.body.token.exp - res.resp.body.token.iat
            e == res.req.expires_in_seconds
        IN  /\ d > 0
            /\ d <= HourSeconds * TicksPerSecond
            /\ d = (IF e > 0 /\ e <= HourSeconds THEN e ELSE HourSeconds) * TicksPerSecond

\* C8 (the claim, refuted by the code): a successful login issues one access
\* token and one refresh token: the response carries both, and the
\* refresh-token table holds an Active row of the logged-in user for the
\* refresh token returned.
C8_LoginIssuesRefreshToken ==
    (res.op = "handlerLogin" /\ res.resp.code = 200) =>
        /\ res.resp.body.token.wellformed
        /\ "refresh_token" \in DOMAIN res.resp.body
        /\ \E r \in refresh_tokens :
              /\ r.token = res.resp.body.refresh_token
              /\ r.user_id = res.resp.body.id
              /\ Active(r, now)

\* C10 (the claim, refuted by the code): after Register(email, password)
\* returned user id u (and while that user's row exists), every login with the
\* same email and password answers 200 with an access token that ValidateJWT
\* under the process secret resolves to u when the login returns, whatever
\* other users registered or logged in in between.
C10_RegisterThenLogin ==
    (res.op = "handlerLogin" /\ res.req.bodyOk) =>
        \A g \in hist.registered :
            ( /\ g.email = res.req.email
              /\ g.password = res.req.password
              /\ \E u \in users : u.id = g.id )
            => /\ res.resp.code = 200
               /\ res.resp.body.id = g.id
               /\ ValidateJWT(res.resp.body.token, cfg.secretKey, now)
                     = [userId |-> g.id, err |-> ""]

\* C10, the part the code keeps: such a login answers 200 with u and a token
\* that ValidateJWT under the process secret resolves to u at every instant
\* before its exp, and at the instant the login returns when the request's
\* expires_in_seconds is not negative.
C10_RegisterThenLoginBeforeExp ==
    (res.op = "handlerLogin" /\ res.req.bodyOk) =>
        \A g \in hist.registered :
            ( /\ g.email = res.req.email
              /\ g.password = res.req.password
              /\ \E u \in users : u.id = g.id )
            => /\ res.resp.code = 200
               /\ res.resp.body.id = g.id
               /\ \A t \in Times :
                     t < res.resp.body.token.exp =>
                        ValidateJWT(res.resp.body.token, cfg.secretKey, t)
                           = [userId |-> g.id, err |-> ""]
               /\ res.req.expires_in_seconds >= 0 =>
                     ValidateJWT(res.resp.body.token, cfg.secretKey, now)
                        = [userId |-> g.id, err |-> ""]

\* C11: a login whose email matches no user answers 404, and one whose
\* password does not verify against the stored hash answers 401; in both
\* cases no access token is issued and the users, the refresh tokens and the
\* configuration (its userId too) stay as they were.
C11_LoginFailureNoChange ==
    [][(res'.op = "handlerLogin" /\ res'.req.bodyOk) =>
        LET found == {u \in users : u.email = res'.req.email}
            wrong == \E u \in found : \E g \in hist.registered :
                        g.id = u.id /\ g.password # res'.req.password
            failed == /\ Len(res'.resp.body) = 2
                      /\ res'.resp.body[1] = "error"
                      /\ users' = users
                      /\ nextId' = nextId
                      /\ refresh_tokens' = refresh_tokens
                      /\ cfg' = cfg
        IN  /\ found = {} => (res'.resp.code = 404 /\ failed)
            /\ wrong => (res'.resp.code = 401 /\ failed)
    ]_vars

\* C11 witness: a login with a wrong password was answered 401 while the
\* configuration holds the id of another user, who logged in before
C11_Witness ==
    /\ res.op = "handlerLogin"
    /\ res.resp.code = 401
    /\ cfg.userId # NilUUID
    /\ \E u \in users : u.email = res.req.email /\ u.id # cfg.userId

\* C13 (the claim, refuted by the code): when platform is not "dev",
\* handlerRegister creates no user row and leaves the configuration's userId
\* alone: the request ends with a 403 answer before the password is hashed or
\* CreateUser is called.
C13_NonDevRegisterForbidden ==
    [][(res'.op = "handlerRegister" /\ res'.req.bodyOk /\ cfg.platform # "dev") =>
        /\ res'.resp.code = 403
        /\ ~res'.resp.panicked
        /\ users' = users
        /\ nextId' = nextId
        /\ cfg'.userId = cfg.userId
    ]_vars

\* C13, the part the code keeps: such a request creates no user row and
\* leaves the configuration alone (the handler does not get past the 403).
C13_NonDevRegisterNoUser ==
    [][(res'.op = "handlerRegister" /\ res'.req.bodyOk /\ cfg.platform # "dev") =>
        /\ res'.resp.code = 403
        /\ users' = users
        /\ nextId' = nextId
        /\ cfg' = cfg
    ]_vars

\* the err.Error() texts of the internal failures the handlers meet
InternalErrors ==
    {"json: cannot decode", "pq: duplicate key value violates unique constraint"}

\* C15 (the claim, refuted by the code): an internal failure reaches the
\* caller as a generic server fault: the body of a 500 answer is the same for
\* every underlying error and holds none of the error's text.
C15_ServerFaultGeneric ==
    (res.op \in {"handlerLogin", "handlerRegister"} /\ res.resp.code = 500) =>
        \A e \in InternalErrors :
            /\ res.resp.body = marshallError(e, 500).body
            /\ \A i \in DOMAIN res.resp.body : res.resp.body[i] # e

\* ------------------------------------------------- properties: SpecChirp
\* C16: the signing secret does not change after startup: after any
\* interleaving of login, register, create-chirp and reset requests the
\* configuration's secretKey is the one set at startup, so an access token the
\* process issued validates under the configuration's secret at every instant
\* before its exp.
C16_SecretImmutable ==
    [][/\ cfg'.secretKey = cfg.secretKey
       /\ (res'.op = "handlerLogin" /\ res'.resp.code = 200) =>
             \A t \in Times :
                t < res'.resp.body.token.exp =>
                   ValidateJWT(res'.resp.body.token, cfg'.secretKey, t)
                      = [userId |-> res'.resp.body.id, err |-> ""]
    ]_vars

\* C16 witness: a login answered 200 after a reset took an earlier user away
\* and a chirp was created
C16_Witness ==
    /\ res.op = "handlerLogin"
    /\ res.resp.code = 200
    /\ chirps # {}
    /\ \E g \in hist.registered : \A u \in users : u.id # g.id

\* the access token of a create-chirp request, and whether the handler's
\* ValidateJWT call accepts it
ChirpToken(req) == ParseJWT(GetBearerToken(req.headers).token)

ChirpTokenAccepted(req, c, t) ==
    /\ GetBearerToken(req.headers).err = ""
    /\ ValidateJWT(ChirpToken(req), c.secretKey, t).err = ""

\* C19 (the claim, refuted by the code): handlerCreateChirp creates a chirp
\* row only if the request carries a Bearer header whose token ValidateJWT
\* accepts under the process secret; a request with a missing header or a
\* malformed, wrongly signed or expired token creates no chirp and is
\* answered 401.
C19_ChirpOnlyWhenAuthenticated ==
    [][res'.op = "handlerCreateChirp" =>
        /\ chirps' # chirps => ChirpTokenAccepted(res'.req, cfg, now)
        /\ (res'.req.bodyOk /\ ~ChirpTokenAccepted(res'.req, cfg, now)) =>
              (res'.resp.code = 401 /\ chirps' = chirps)
    ]_vars

\* C20 (the claim, refuted by the code): every chirp row handlerCreateChirp
\* creates has the user_id that is the subject of the access token of that
\* same request, and the user_id of the 201 answer is the user_id of the row
\* (stated for the requests whose token ValidateJWT accepts).
C20_ChirpOwnerIsTokenSubject ==
    [][(/\ res'.op = "handlerCreateChirp"
        /\ res'.resp.code = 201
        /\ ChirpTokenAccepted(res'.req, cfg, now)) =>
        \E c \in chirps' \ chirps :
            /\ c.id = res'.resp.body.id
            /\ c.user_id = UUIDParse(ChirpToken(res'.req).sub)
            /\ res'.resp.body.user_id = c.user_id
    ]_vars

\* ------------------------------------------------- properties: SpecHeader
\* C12: the two schemes exclude each other: for every Authorization header
\* value at most one of GetBearerToken and GetAPIKey succeeds; "Bearer abc"
\* yields "abc" from GetBearerToken only, "ApiKey k1" yields "k1" from
\* GetAPIKey only, and a missing header, an empty header and a header of
\* another scheme ("Basic xyz") yield an error from both.
C12_SchemesExclusive ==
    res.op \in {"GetBearerToken", "GetAPIKey"} =>
        LET h == res.headers
            bearer == IF res.op = "GetBearerToken" THEN res.out ELSE GetBearerToken(h)
            apiKey == IF res.op = "GetAPIKey" THEN res.out ELSE GetAPIKey(h)
        IN  /\ ~(bearer.err = "" /\ apiKey.err = "")
            /\ h = WithAuthorization(BearerAbc) =>
                  /\ bearer = [token |-> <<"a", "b", "c">>, err |-> ""]
                  /\ apiKey.err # ""
            /\ h = WithAuthorization(ApiKeyK1) =>
                  /\ apiKey = [token |-> <<"k", "1">>, err |-> ""]
                  /\ bearer.err # ""
            /\ h \in {NoHeaders, WithAuthorization(<<>>), WithAuthorization(BasicXyz)} =>
                  /\ bearer.err # "" /\ bearer.token = <<>>
                  /\ apiKey.err # "" /\ apiKey.token = <<>>

\* C12 witness: GetAPIKey refused "Bearer abc", which GetBearerToken accepts
C12_Witness ==
    /\ res.op = "GetAPIKey"
    /\ res.headers = WithAuthorization(BearerAbc)
    /\ res.out.err # ""
    /\ GetBearerToken(res.headers).err = ""

\* the characters the claims call whitespace, as far as the inputs hold them
Whitespace == {" ", "\t"}

\* tok is rest without the characters of ws that surround it
Trimmed(tok, rest, ws) ==
    /\ tok # <<>> => (tok[1] \notin ws /\ tok[Len(tok)] \notin ws)
    /\ \E i \in 0..Len(rest) : \E j \in i..Len(rest) :
          /\ tok = SubSeq(rest, i + 1, j)
          /\ \A k \in 1..i : rest[k] \in ws
          /\ \A k \in (j + 1)..Len(rest) : rest[k] \in ws

\* the text of an accepted header value after its scheme prefix
AfterPrefix(r) ==
    LET v == r.headers["Authorization"]
        prefix == IF r.op = "GetBearerToken" THEN BearerPrefix ELSE ApiKeyPrefix
    IN  SubSeq(v, Len(prefix) + 1, Len(v))

\* C18 (the claim as stated, refuted): GetBearerToken and GetAPIKey trim all
\* whitespace around the credential: for every header value they accept, the
\* returned string has no leading or trailing whitespace character and is the
\* text after the scheme prefix with its surrounding whitespace removed.
C18_TrimsAllWhitespace ==
    (res.op \in {"GetBearerToken", "GetAPIKey"} /\ res.out.err = "") =>
        Trimmed(res.out.token, AfterPrefix(res), Whitespace)

\* C18 (amended): they trim the spaces around the credential: the returned
\* string has no leading or trailing space and is the text after the scheme
\* prefix with its surrounding spaces removed; a tab stays.
C18_TrimsSpaces ==
    (res.op \in {"GetBearerToken", "GetAPIKey"} /\ res.out.err = "") =>
        Trimmed(res.out.token, AfterPrefix(res), {" "})

\* C18 witness: GetBearerToken accepted a value with spaces on both sides of
\* the credential and returned the credential without them
C18_Witness ==
    /\ res.op = "GetBearerToken"
    /\ res.out.err = ""
    /\ res.out.token # <<>>
    /\ LET rest == AfterPrefix(res)
       IN  rest[1] = " " /\ rest[Len(rest)] = " "

\* C21 (the claim, refuted by the code): a successful extraction never yields
\* an empty credential: whenever GetBearerToken or GetAPIKey returns without
\* an error the returned string is not empty, and a header that is the scheme
\* prefix followed by spaces only is refused.
C21_CredentialNotEmpty ==
    res.op \in {"GetBearerToken", "GetAPIKey"} =>
        /\ res.out.err = "" => res.out.token # <<>>
        /\ \A n \in 0..MaxLen :
              res.headers = WithAuthorization(
                  (IF res.op = "GetBearerToken" THEN BearerPrefix ELSE ApiKeyPrefix)
                      \o [k \in 1..n |-> " "])
              => res.out.err # ""

====
